---- MODULE Spec2Model ----
(***************************************************************************)
(* A model of package hcproto (src/hcproto.go): the message scanner        *)
(* Parser.Parse with its extractors emotion, mention and link, and the     *)
(* link enrichment Parser.urlsToLinks / Parser.pagetTitle.                 *)
(*                                                                         *)
(* A Go string is a sequence of bytes 0..255, indexed from 1 here and from *)
(* 0 in Go: Slice(s, a, b) is Go's s[a:b].                                 *)
(***************************************************************************)
EXTENDS Integers, Sequences, FiniteSets, TLC

(***************************************************************************)
(* Bytes and strings                                                       *)
(***************************************************************************)

\* The printable ASCII characters in code order, 0x20 .. 0x7E (three of them
\* by name).
Printable ==
  << " ", "!", "dquote", "#", "$", "%", "&", "'", "(", ")", "*", "+", ",", "-",
     ".", "/", "0", "1", "2", "3", "4", "5", "6", "7", "8", "9", ":", ";",
     "<", "=", ">", "?", "@", "A", "B", "C", "D", "E", "F", "G", "H", "I",
     "J", "K", "L", "M", "N", "O", "P", "Q", "R", "S", "T", "U", "V", "W",
     "X", "Y", "Z", "[", "backslash", "]", "^", "_", "backtick", "a", "b", "c", "d", "e",
     "f", "g", "h", "i", "j", "k", "l", "m", "n", "o", "p", "q", "r", "s",
     "t", "u", "v", "w", "x", "y", "z", "{", "|", "}", "~" >>

\* The byte of a printable ASCII character, as a Go rune literal 'c'.
Ord(c) == 31 + (CHOOSE k \in 1..Len(Printable) : Printable[k] = c)

\* The Go string literal made of the given characters.
Str(cs) == [k \in 1..Len(cs) |-> Ord(cs[k])]

\* The rune and string literals of hcproto.go.
LParen     == Ord("(")
RParen     == Ord(")")
At         == Ord("@")
Underscore == Ord("_")
Colon      == Ord(":")
Slash      == Ord("/")
UpperH     == Ord("H")
LowerH     == Ord("h")
UpperS     == Ord("S")
LowerS     == Ord("s")
Http       == Str(<<"h", "t", "t", "p">>)
Https      == Str(<<"h", "t", "t", "p", "s">>)
SchemeEnd  == Str(<<":", "/", "/">>)

\* Go's s[a:b] (0-based, half open).
Slice(s, a, b) == SubSeq(s, a + 1, b)

\* Go's s[a:].
SliceFrom(s, a) == SubSeq(s, a + 1, Len(s))

\* Go's string comparison a < b: bytewise lexicographic.
RECURSIVE StrLess(_, _)
StrLess(a, b) ==
  IF b = <<>> THEN FALSE
  ELSE IF a = <<>> THEN TRUE
  ELSE IF a[1] # b[1] THEN a[1] < b[1]
  ELSE StrLess(Tail(a), Tail(b))

\* strings.Index(s, string(c)): the 0-based index of the first byte c, or -1.
IndexByte(s, c) ==
  IF \E k \in 1..Len(s) : s[k] = c
  THEN (CHOOSE k \in 1..Len(s) : s[k] = c /\ \A l \in 1..(k - 1) : s[l] # c) - 1
  ELSE -1

\* strings.LastIndex(s, string(c)): the 0-based index of the last byte c, or -1.
LastIndexByte(s, c) ==
  IF \E k \in 1..Len(s) : s[k] = c
  THEN (CHOOSE k \in 1..Len(s) : s[k] = c /\ \A l \in (k + 1)..Len(s) : s[l] # c) - 1
  ELSE -1

(***************************************************************************)
(* unicode/utf8                                                            *)
(***************************************************************************)

\* utf8.RuneError, U+FFFD.
RuneError == 65533

\* A UTF-8 continuation byte, 10xxxxxx.
IsCont(b) == b \in 128..191

\* utf8.DecodeRuneInString(s): the first code point of s and its width in
\* bytes; (RuneError, 0) for the empty string and (RuneError, 1) for an
\* encoding that is invalid, truncated, overlong, a surrogate or out of range.
DecodeRuneInString(s) ==
  LET n  == Len(s)
      bad == [r |-> RuneError, size |-> 1]
  IN IF n < 1 THEN [r |-> RuneError, size |-> 0]
     ELSE LET b0 == s[1] IN
       IF b0 < 128 THEN [r |-> b0, size |-> 1]
       ELSE IF b0 \in 194..223 THEN
         IF n >= 2 /\ IsCont(s[2])
         THEN [r |-> (b0 - 192) * 64 + (s[2] - 128), size |-> 2]
         ELSE bad
       ELSE IF b0 \in 224..239 THEN
         LET lo == IF b0 = 224 THEN 160 ELSE 128
             hi == IF b0 = 237 THEN 159 ELSE 191
         IN IF n >= 3 /\ s[2] \in lo..hi /\ IsCont(s[3])
            THEN [r |-> (b0 - 224) * 4096 + (s[2] - 128) * 64 + (s[3] - 128),
                  size |-> 3]
            ELSE bad
       ELSE IF b0 \in 240..244 THEN
         LET lo == IF b0 = 240 THEN 144 ELSE 128
             hi == IF b0 = 244 THEN 143 ELSE 191
         IN IF n >= 4 /\ s[2] \in lo..hi /\ IsCont(s[3]) /\ IsCont(s[4])
            THEN [r |-> (b0 - 240) * 262144 + (s[2] - 128) * 4096
                        + (s[3] - 128) * 64 + (s[4] - 128),
                  size |-> 4]
            ELSE bad
       ELSE bad

\* utf8.DecodeLastRune(p): the last code point of p and its width; it looks
\* back at most utf8.UTFMax = 4 bytes for a byte that starts an encoding.
DecodeLastRune(p) ==
  LET end == Len(p) IN
  IF end = 0 THEN [r |-> RuneError, size |-> 0]
  ELSE IF p[end] < 128 THEN [r |-> p[end], size |-> 1]
  ELSE
    LET lim    == IF end - 4 < 0 THEN 0 ELSE end - 4
        \* 0-based positions lim .. end-2 holding a byte that starts a rune
        starts == {k \in lim..(end - 2) : ~IsCont(p[k + 1])}
        found  == IF starts = {} THEN lim - 1
                  ELSE CHOOSE k \in starts : \A l \in starts : l <= k
        start  == IF found < 0 THEN 0 ELSE found
        d      == DecodeRuneInString(Slice(p, start, end))
    IN IF start + d.size # end THEN [r |-> RuneError, size |-> 1] ELSE d

(***************************************************************************)
(* unicode: the character classes, exact for the code points up to U+00FF  *)
(* and for U+FFFD, which are the code points the texts of this model hold  *)
(***************************************************************************)

\* unicode.IsLetter(r)
IsLetter(r) ==
  \/ r \in 65..90
  \/ r \in 97..122
  \/ r \in {170, 181, 186}
  \/ r \in 192..214
  \/ r \in 216..246
  \/ r \in 248..255

\* unicode.IsDigit(r)
IsDigit(r) == r \in 48..57

\* unicode.IsSpace(r)
IsSpace(r) ==
  \/ r \in 9..13
  \/ r \in {32, 133, 160}
  \/ r \in {5760, 8232, 8233, 8239, 8287, 12288}
  \/ r \in 8192..8202

\* strings.ToLower(s) on the byte strings link() passes it: ASCII upper case
\* letters are lowered, every other byte is kept.
ToLower(s) == [k \in 1..Len(s) |-> IF s[k] \in 65..90 THEN s[k] + 32 ELSE s[k]]

(***************************************************************************)
(* net/url: url.Parse on the candidates link() passes it, which start with *)
(* a scheme http or https (in any case) and "://" and hold no white space. *)
(* The texts of this model hold none of the bytes # ? % [ ], so the        *)
(* fragment, the query, the escapes and the IPv6 hosts play no part.       *)
(***************************************************************************)

\* The bytes a valid userinfo may hold (validUserinfo).
UserinfoBytes ==
  (48..57) \cup (65..90) \cup (97..122)
    \cup {Ord(c) : c \in {"-", ".", "_", ":", "~", "!", "$", "&", "'", "(", ")",
                          "*", "+", ",", ";", "=", "%", "@"}}

\* The ASCII bytes a host may hold unescaped (shouldEscape, encodeHost).
HostBytes ==
  (48..57) \cup (65..90) \cup (97..122)
    \cup {Ord(c) : c \in {"!", "$", "&", "'", "(", ")", "*", "+", ",", ";", "=",
                          ":", "[", "]", "<", ">", "dquote", "-", "_", ".", "~"}}

\* validOptionalPort(port): port is empty or a colon and decimal digits.
validOptionalPort(port) ==
  \/ port = <<>>
  \/ /\ port[1] = Colon
     /\ \A k \in 2..Len(port) : port[k] \in 48..57

\* parseHost(host): the port after the last colon is valid and no ASCII byte
\* of the host needs escaping.
parseHostOk(host) ==
  /\ LET c == LastIndexByte(host, Colon)
     IN c # -1 => validOptionalPort(SliceFrom(host, c))
  /\ \A k \in 1..Len(host) : host[k] < 128 => host[k] \in HostBytes

\* parseAuthority(authority): the userinfo before the last '@' is valid and
\* the host after it parses.
parseAuthorityOk(authority) ==
  LET at == LastIndexByte(authority, At) IN
  IF at < 0 THEN parseHostOk(authority)
  ELSE /\ parseHostOk(SliceFrom(authority, at + 1))
       /\ \A k \in 1..at : authority[k] \in UserinfoBytes

\* url.Parse(link) returns no error.
urlParseOk(l) ==
  LET colon == IndexByte(l, Colon)
      \* what follows "scheme://"
      rest  == SliceFrom(l, colon + 3)
      slash == IndexByte(rest, Slash)
      authority == IF slash = -1 THEN rest ELSE Slice(rest, 0, slash)
  IN /\ \A k \in 1..Len(l) : ~(l[k] < 32 \/ l[k] = 127)
     /\ parseAuthorityOk(authority)

(***************************************************************************)
(* The extractors                                                          *)
(***************************************************************************)

\* The supported emotions list, kept sorted for the binary search.
supportedEmotions ==
  << Str(<<"a", "t", "l", "a", "s", "s", "i", "a", "n">>),
     Str(<<"b", "i", "t", "b", "u", "c", "k", "e", "t">>),
     Str(<<"b", "o", "o", "m">>),
     Str(<<"c", "r", "u", "c", "i", "b", "l", "e">>),
     Str(<<"f", "r", "y">>),
     Str(<<"g", "h", "o", "s", "t">>),
     Str(<<"h", "e", "a", "r", "t">>) >>

\* sort.Search over [lo, hi) for the smallest 0-based index h with a[h] >= x.
RECURSIVE Search(_, _, _, _)
Search(a, x, lo, hi) ==
  IF lo < hi
  THEN LET h == (lo + hi) \div 2
       IN IF StrLess(a[h + 1], x) THEN Search(a, x, h + 1, hi)
          ELSE Search(a, x, lo, h)
  ELSE lo

\* sort.SearchStrings(a, x)
SearchStrings(a, x) == Search(a, x, 0, Len(a))

\* A plausible slip: the hit test after the binary search is left out.
emotionNoEqualityTest(s) ==
  LET close == IndexByte(s, RParen) IN
  IF close = -1 THEN [e |-> <<>>, n |-> 0]
  ELSE LET e == Slice(s, 1, close)
           i == SearchStrings(supportedEmotions, e)
       IN IF ~(i < Len(supportedEmotions))
          THEN [e |-> <<>>, n |-> 0]
          ELSE [e |-> e, n |-> i + 1]

\* emotion(s), s starting with '(': the emotion and the width it reports.
\* The variable i is reused for the index in supportedEmotions, so the width
\* returned is that index plus one.
emotion(s) ==
  LET close == IndexByte(s, RParen) IN
  IF close = -1 THEN [e |-> <<>>, n |-> 0]
  ELSE LET e == Slice(s, 1, close)
           i == SearchStrings(supportedEmotions, e)
       IN IF ~(i < Len(supportedEmotions) /\ supportedEmotions[i + 1] = e)
          THEN [e |-> <<>>, n |-> 0]
          ELSE [e |-> e, n |-> i + 1]

\* The loop of mention(): from 0-based index i, skip the letters, digits and
\* underscores.
RECURSIVE mentionEnd(_, _)
mentionEnd(s, i) ==
  IF i < Len(s)
  THEN LET d == DecodeRuneInString(SliceFrom(s, i))
       IN IF IsLetter(d.r) \/ IsDigit(d.r) \/ d.r = Underscore
          THEN mentionEnd(s, i + d.size)
          ELSE i
  ELSE i

\* mention(s), s starting with '@': the name and the width with the '@'.
mention(s) ==
  LET i == mentionEnd(s, 1) IN
  IF i = 1 THEN [m |-> <<>>, n |-> 0]
  ELSE [m |-> Slice(s, 1, i), n |-> i]

\* spaceIndex(s) from 0-based index i: the index of the first white space
\* code point, or -1.
RECURSIVE spaceIndexFrom(_, _)
spaceIndexFrom(s, i) ==
  IF i < Len(s)
  THEN LET d == DecodeRuneInString(SliceFrom(s, i))
       IN IF IsSpace(d.r) THEN i ELSE spaceIndexFrom(s, i + d.size)
  ELSE -1

\* spaceIndex(s)
spaceIndex(s) == spaceIndexFrom(s, 0)

\* link(s): the URL and its width; panic is the run-time panic of the slice
\* expression s[pl:pl+3] when pl + 3 exceeds len(s).
link(s) ==
  LET none == [url |-> <<>>, n |-> 0, panic |-> FALSE] IN
  IF Len(s) < 7 THEN none
  ELSE
    LET proto == IF s[5] = LowerS \/ s[5] = UpperS
                 THEN ToLower(Slice(s, 0, 4)) \o <<LowerS>>
                 ELSE ToLower(Slice(s, 0, 4))
    IN IF proto # Http
          /\ proto # Https
       THEN none
       ELSE
         LET pl == Len(proto) IN
         IF pl + 3 > Len(s) THEN [url |-> <<>>, n |-> 0, panic |-> TRUE]
         ELSE IF Slice(s, pl, pl + 3) # SchemeEnd THEN none
         ELSE
           LET sp  == spaceIndex(s)
               end == IF sp = -1 THEN Len(s) ELSE sp
               l   == Slice(s, 0, end)
           IN IF ~urlParseOk(l) THEN none
              ELSE [url |-> l, n |-> Len(l), panic |-> FALSE]

(***************************************************************************)
(* The page title parser                                                   *)
(***************************************************************************)

\* A response of HTTPGetter.Get: err is the transport error; body is the
\* token stream html.Tokenizer produces from resp.Body, after whose last
\* token Next() returns ErrorToken (io.EOF).  kind and want describe the
\* page as its author sees it: a page that cannot be fetched, a page that is
\* no HTML document, or a page with the title want.
Response(err, body, kind, want) ==
  [err |-> err, body |-> body, kind |-> kind, want |-> want]

StartTag(name) == [tt |-> "StartTag", data |-> name]
EndTag(name)   == [tt |-> "EndTag", data |-> name]
Text(data)     == [tt |-> "Text", data |-> data]

\* fakeHTTPGetter's answer for an unknown URL: errors.New("page not found").
pageNotFound == Response(TRUE, <<>>, "transport", "")

\* golangOrgPage
golangOrgPage ==
  Response(FALSE,
    << Text("ws"), StartTag("html"), Text("ws"), StartTag("head"), Text("ws"),
       StartTag("title"), Text("The Go Programming Language"), EndTag("title"),
       Text("ws"), EndTag("head"), Text("ws"), StartTag("body"), Text("ws"),
       StartTag("b"), Text("Some page content..."), EndTag("b"), Text("ws"),
       EndTag("body"), Text("ws"), EndTag("html"), Text("ws") >>,
    "page", "The Go Programming Language")

\* atlassianComPage: a script element before the title.
atlassianComPage ==
  Response(FALSE,
    << Text("ws"), StartTag("html"), Text("ws"), StartTag("head"), Text("ws"),
       StartTag("script"), EndTag("script"), Text("ws"),
       StartTag("title"), Text("Atlassian"), EndTag("title"),
       Text("ws"), EndTag("head"), Text("ws"), StartTag("body"), Text("ws"),
       EndTag("body"), Text("ws"), EndTag("html"), Text("ws") >>,
    "page", "Atlassian")

\* A page without a title element.
untitledPage ==
  Response(FALSE,
    << StartTag("html"), StartTag("head"), EndTag("head"), StartTag("body"),
       Text("Some page content..."), EndTag("body"), EndTag("html") >>,
    "page", "")

\* A body that ends before any head, title or body tag: no HTML document.
brokenPage ==
  Response(FALSE, << Text("ws"), StartTag("html"), Text("ws") >>, "markup", "")

\* The responses the fetch capability may give to a Get.
Responses ==
  {pageNotFound, golangOrgPage, atlassianComPage, untitledPage, brokenPage}

\* t.Next() for the k-th token of the stream.
NextToken(body, k) ==
  IF k <= Len(body) THEN body[k] ELSE [tt |-> "Error", data |-> "EOF"]

\* A step of the token loop that goes on with the k-th token.
Continue(k, head) ==
  [done |-> FALSE, path |-> "none", title |-> "", err |-> FALSE, k |-> k,
   head |-> head]

\* A step of the token loop that returns from pagetTitle, on the path
\* "title" (return string(t.Text()), nil), "empty" (return "", nil) or
\* "markup" (return "", errors.New("invalid html")).
Return(path, title, err, k, head) ==
  [done |-> TRUE, path |-> path, title |-> title, err |-> err, k |-> k,
   head |-> head]

\* A plausible slip: the case "body" is missing from the switch.
titleStepNoBodyCase(body, k, head) ==
  LET tok == NextToken(body, k) IN
  IF tok.tt = "Error" THEN Return("markup", "", TRUE, k + 1, head)
  ELSE IF tok.tt = "StartTag" THEN
    IF tok.data = "head" THEN Continue(k + 1, TRUE)
    ELSE IF tok.data = "title" THEN
      IF NextToken(body, k + 1).tt = "Text"
      THEN Return("title", NextToken(body, k + 1).data, FALSE, k + 2, head)
      ELSE Continue(k + 2, head)
    ELSE Continue(k + 1, head)
  ELSE IF tok.tt = "EndTag" THEN
    IF tok.data = "head" THEN Return("empty", "", FALSE, k + 1, head)
    ELSE Continue(k + 1, head)
  ELSE Continue(k + 1, head)

\* One iteration of the token loop of pagetTitle, reading the k-th token
\* (and, after a title start tag, the one after it): k is the next token to
\* read afterwards.
titleStep(body, k, head) ==
  LET tok == NextToken(body, k) IN
  IF tok.tt = "Error" THEN Return("markup", "", TRUE, k + 1, head)
  ELSE IF tok.tt = "StartTag" THEN
    IF tok.data = "head" THEN Continue(k + 1, TRUE)
    ELSE IF tok.data = "title" THEN
      IF TRUE \/ head
      THEN IF NextToken(body, k + 1).tt = "Text"
           THEN Return("title", NextToken(body, k + 1).data, FALSE, k + 2, head)
           ELSE Continue(k + 2, head)
      ELSE Continue(k + 1, head)
    ELSE IF tok.data = "body" THEN Return("empty", "", FALSE, k + 1, head)
    ELSE Continue(k + 1, head)
  ELSE IF tok.tt = "EndTag" THEN
    IF tok.data = "head" THEN Return("empty", "", FALSE, k + 1, head)
    ELSE Continue(k + 1, head)
  ELSE Continue(k + 1, head)

\* The token loop of pagetTitle from the k-th token on.
RECURSIVE titleLoop(_, _, _)
titleLoop(body, k, head) ==
  LET st == titleStep(body, k, head) IN
  IF st.done THEN [title |-> st.title, err |-> st.err]
  ELSE titleLoop(body, st.k, st.head)

\* A plausible slip: the error's text is returned in the title's place.
pagetTitleErrorText(resp) ==
  IF resp.err THEN [title |-> "page not found", err |-> TRUE]
  ELSE LET r == titleLoop(resp.body, 1, FALSE)
       IN IF r.err THEN [title |-> "invalid html", err |-> TRUE] ELSE r

\* p.pagetTitle(url), given the response p.hg.Get(url) returned.
pagetTitle(resp) ==
  IF resp.err THEN [title |-> "", err |-> TRUE]
  ELSE titleLoop(resp.body, 1, FALSE)

(***************************************************************************)
(* The messages                                                            *)
(***************************************************************************)

\* The longest message, in fragments.
MaxFrags == 3

\* The pieces the messages are made of: the characters the scanner
\* dispatches on, tokens of each kind, and code points of each class.
Fragments ==
  { Str(<<"@">>), Str(<<"(">>), Str(<<")">>), Str(<<"/">>), Str(<<" ">>),
    Str(<<"a">>), Str(<<"_", "1">>), Str(<<"@", "a">>),
    Str(<<"(", "f", "r", "y", ")">>),
    Str(<<"(", "b", "o", "o", "m", ")">>),
    Str(<<"(", "F", "r", "y", ")">>),
    Str(<<"h", "t", "t", "p", ":", "/", "/">>),
    Str(<<"h", "t", "t", "p", "s", ":", "/">>),
    Str(<<"H", "T", "T", "P", "S", ":", "/", "/">>),
    <<195, 169>>,        \* U+00E9, a letter
    <<194, 160>>,        \* U+00A0, a white space
    <<239, 191, 189>>,   \* U+FFFD, the replacement character itself
    <<255>> }            \* a byte no encoding holds

\* The messages of at most n fragments.
RECURSIVE Messages(_)
Messages(n) ==
  IF n = 0 THEN {<<>>}
  ELSE LET shorter == Messages(n - 1)
       IN shorter \cup {m \o f : m \in shorter, f \in Fragments}

(***************************************************************************)
(* The state                                                               *)
(***************************************************************************)

\* The Parse calls on the one Parser: call 1, and call 2 which runs beside
\* it in SpecConcurrent only.
Calls == {1, 2}

VARIABLES
  msg,        \* msg[c]: the message of call c
  pc,         \* pc[c]: where call c is: "idle", "scan", "spawn", "recv",
              \* "done" (a MsgInfo returned), "error" (the decoding error
              \* returned) or "panic" (a run-time panic)
  i,          \* i[c]: the scan position
  mentions,   \* mentions[c], emotions[c], urls[c]: what the scan found
  emotions,
  urls,
  mentionAt,  \* the position i at which each of mentions[c] was found
  emotionAt,  \* the same for emotions[c]
  urlAt,      \* the same for urls[c]
  tasks,      \* tasks[c][k]: the fetch of urls[c][k]: st is "spawned",
              \* "fetched", "sent" for a goroutine and "sync" for the
              \* fetch in the calling task; u is its URL, resp the response
              \* Get gave it, t its title
  chans,      \* chans[id]: the Links buffered in channel id
  links,      \* links[c]: the Links of the MsgInfo call c returns
  sent,       \* sent[id]: every Link sent into channel id so far, in order
  gets,       \* gets[c][u]: how often call c has called Get(u)
  tresp,      \* a pagetTitle call followed token by token: the response
              \* of its Get
  tpc,        \* where it is: "idle", "get", "loop" or "returned"
  tk,         \* the next token t.Next() gives
  thead,      \* its variable head
  tres,       \* what it returned: path is "fetch" (the Get failed),
              \* "title", "empty" or "markup", with title and err
  tcloses     \* how often resp.Body.Close() has run

titleVars == << tresp, tpc, tk, thead, tres, tcloses >>

vars == << msg, pc, i, mentions, emotions, urls, mentionAt, emotionAt, urlAt,
           tasks, chans, links, sent, gets, titleVars >>

scanVars == << mentions, emotions, urls, mentionAt, emotionAt, urlAt >>

\* No response yet.
NoResponse == Response(FALSE, <<>>, "none", "")

\* No Get yet.
NoGets == [u \in {} |-> 0]

\* One more Get(u), n times over.
AddGets(g, u, n) ==
  [x \in DOMAIN g \cup {u} |->
     IF x = u THEN (IF u \in DOMAIN g THEN g[u] ELSE 0) + n ELSE g[x]]

\* Nothing returned yet.
NoResult == [path |-> "none", title |-> "", err |-> FALSE]

\* The state of every call before Parse runs.
Fresh ==
  /\ i = [c \in Calls |-> 0]
  /\ mentions = [c \in Calls |-> <<>>]
  /\ emotions = [c \in Calls |-> <<>>]
  /\ urls = [c \in Calls |-> <<>>]
  /\ mentionAt = [c \in Calls |-> <<>>]
  /\ emotionAt = [c \in Calls |-> <<>>]
  /\ urlAt = [c \in Calls |-> <<>>]
  /\ tasks = [c \in Calls |-> <<>>]
  /\ chans = [c \in Calls |-> <<>>]
  /\ links = [c \in Calls |-> <<>>]
  /\ sent = [c \in Calls |-> <<>>]
  /\ gets = [c \in Calls |-> NoGets]

\* No pagetTitle call is followed.
TitleIdle ==
  /\ tresp = NoResponse
  /\ tpc = "idle"
  /\ tk = 1
  /\ thead = FALSE
  /\ tres = NoResult
  /\ tcloses = 0

\* One Parse call, on any message.
Init ==
  /\ \E m \in Messages(MaxFrags) : msg = [c \in Calls |-> IF c = 1 THEN m ELSE <<>>]
  /\ pc = [c \in Calls |-> IF c = 1 THEN "scan" ELSE "idle"]
  /\ Fresh
  /\ TitleIdle

(***************************************************************************)
(* Parser.Parse: the scan                                                  *)
(***************************************************************************)

\* A plausible slip: only the letters are looked for before the link.
linkStartLettersOnly(m, idx) ==
  IF idx > 0
  THEN ~IsLetter(DecodeLastRune(Slice(m, 0, idx)).r)
  ELSE TRUE

\* The variable start of Parse: the link at idx does not start in the
\* middle of a word.
linkStart(m, idx) ==
  IF idx > 0
  THEN LET r == DecodeLastRune(Slice(m, 0, idx)).r
       IN ~IsLetter(r) /\ ~IsDigit(r)
  ELSE TRUE

\* A plausible slip: the new element is put in front.
appendFront(list, x) == <<x>> \o list

\* Go's append(list, x).
append(list, x) == Append(list, x)

\* One iteration of the loop of Parse at position idx of m: what is found
\* there (kind, tok) and the size the position advances by.
iteration(m, idx) ==
  LET s == SliceFrom(m, idx)
      d == DecodeRuneInString(s)
      other == [kind |-> "other", tok |-> <<>>, size |-> d.size]
  IN IF d.r = RuneError THEN [kind |-> "error", tok |-> <<>>, size |-> 0]
     ELSE IF d.r = LParen THEN
       LET em == emotion(s)
       IN IF em.e # <<>>
          THEN [kind |-> "emotion", tok |-> em.e, size |-> em.n]
          ELSE other
     ELSE IF d.r = At THEN
       LET me == mention(s)
       IN IF me.m # <<>>
          THEN [kind |-> "mention", tok |-> me.m, size |-> me.n]
          ELSE other
     ELSE IF d.r = UpperH \/ d.r = LowerH THEN
       IF linkStart(m, idx)
       THEN LET lk == link(s)
            IN IF lk.panic THEN [kind |-> "panic", tok |-> <<>>, size |-> 0]
               ELSE IF lk.url # <<>>
               THEN [kind |-> "link", tok |-> lk.url, size |-> lk.n]
               ELSE other
       ELSE other
     ELSE other

\* A plausible slip: the loop stops one byte short of the end.
scanOverShort(m, idx) == ~(idx < Len(m) - 1)

\* The loop of Parse is over: for i < len(msg) no longer holds.
scanOver(m, idx) == ~(idx < Len(m))

\* The loop body of Parse, once.
ScanStep(c) ==
  /\ pc[c] = "scan"
  /\ ~scanOver(msg[c], i[c])
  /\ LET it == iteration(msg[c], i[c]) IN
     /\ pc' = [pc EXCEPT ![c] = IF it.kind \in {"error", "panic"} THEN it.kind
                                ELSE "scan"]
     /\ i' = [i EXCEPT ![c] = @ + it.size]
     /\ IF it.kind = "emotion"
        THEN /\ emotions' = [emotions EXCEPT ![c] = append(@, it.tok)]
             /\ emotionAt' = [emotionAt EXCEPT ![c] = Append(@, i[c])]
        ELSE UNCHANGED << emotions, emotionAt >>
     /\ IF it.kind = "mention"
        THEN /\ mentions' = [mentions EXCEPT ![c] = append(@, it.tok)]
             /\ mentionAt' = [mentionAt EXCEPT ![c] = Append(@, i[c])]
        ELSE UNCHANGED << mentions, mentionAt >>
     /\ IF it.kind = "link"
        THEN /\ urls' = [urls EXCEPT ![c] = append(@, it.tok)]
             /\ urlAt' = [urlAt EXCEPT ![c] = Append(@, i[c])]
        ELSE UNCHANGED << urls, urlAt >>
  /\ UNCHANGED << msg, tasks, chans, links, sent, gets, titleVars >>

(***************************************************************************)
(* Parser.urlsToLinks                                                      *)
(***************************************************************************)

\* Link{URL: u, Title: t}
Link(u, t) == [URL |-> u, Title |-> t]

\* A plausible slip: the channel is kept in the Parser and shared by the
\* calls.
chanOfParser(c) == 1

\* ch := make(chan Link, len(urls)): the channel of call c, made by it.
chanOf(c) == c

\* A plausible slip: the goroutine reads the loop variable url after the
\* loop has gone on, not its own argument.
taskURLShared(us, k) == us[Len(us)]

\* The argument u of the k-th goroutine: go func(u string) {...}(url).
taskURL(us, k) == us[k]

\* A plausible slip: the loop receives one result too few.
recvCountShort(us) == Len(us) - 1

\* The receive loop runs for i := 0; i < len(urls); i++.
recvCount(us) == Len(us)

\* A plausible slip: the channel holds one Link too few.
chanCapShort(us) == Len(us) - 1

\* The capacity of make(chan Link, len(urls)).
chanCap(us) == Len(us)

\* A plausible slip: the newest Link of the buffer is taken, not the oldest.
chanRecvNewest(q) == [v |-> q[Len(q)], rest |-> SubSeq(q, 1, Len(q) - 1)]

\* <-ch on a channel buffering q: the oldest Link, and what stays buffered.
chanRecv(q) == [v |-> Head(q), rest |-> Tail(q)]

\* A plausible slip: a Get that fails is tried once more.
getCountRetry(resp) == IF resp.err THEN 2 ELSE 1

\* The number of p.hg.Get(url) calls of one pagetTitle(url).
getCount(resp) == 1

\* case 0: return nil.
LinksNone(c) ==
  /\ pc[c] = "scan"
  /\ scanOver(msg[c], i[c])
  /\ Len(urls[c]) = 0
  /\ pc' = [pc EXCEPT ![c] = "done"]
  /\ links' = [links EXCEPT ![c] = <<>>]
  /\ UNCHANGED << msg, i, scanVars, tasks, chans, sent, gets, titleVars >>

\* case 1: the title is fetched in the calling task.
LinksOne(c) ==
  /\ pc[c] = "scan"
  /\ scanOver(msg[c], i[c])
  /\ Len(urls[c]) = 1
  /\ \E resp \in Responses :
       LET t == pagetTitle(resp).title IN
       /\ tasks' = [tasks EXCEPT ![c] =
                      << [st |-> "sync", u |-> urls[c][1], resp |-> resp, t |-> t] >>]
       /\ links' = [links EXCEPT ![c] = << Link(urls[c][1], t) >>]
       /\ gets' = [gets EXCEPT ![c] = AddGets(@, urls[c][1], getCount(resp))]
  /\ pc' = [pc EXCEPT ![c] = "done"]
  /\ UNCHANGED << msg, i, scanVars, chans, sent, titleVars >>

\* default: the channel is made.
LinksMany(c) ==
  /\ pc[c] = "scan"
  /\ scanOver(msg[c], i[c])
  /\ Len(urls[c]) >= 2
  /\ pc' = [pc EXCEPT ![c] = "spawn"]
  /\ UNCHANGED << msg, i, scanVars, tasks, chans, links, sent, gets, titleVars >>

\* One go statement of the loop over urls.
Spawn(c) ==
  /\ pc[c] = "spawn"
  /\ LET k == Len(tasks[c]) + 1 IN
     /\ tasks' = [tasks EXCEPT ![c] =
                    Append(@, [st |-> "spawned", u |-> taskURL(urls[c], k),
                               resp |-> NoResponse, t |-> ""])]
     /\ pc' = [pc EXCEPT ![c] = IF k = Len(urls[c]) THEN "recv" ELSE "spawn"]
  /\ UNCHANGED << msg, i, scanVars, chans, links, sent, gets, titleVars >>

\* The k-th goroutine of call c: t, _ := p.pagetTitle(u).
TaskFetch(c, k) ==
  /\ k \in 1..Len(tasks[c])
  /\ tasks[c][k].st = "spawned"
  /\ \E resp \in Responses :
       /\ tasks' = [tasks EXCEPT ![c][k] =
                      [@ EXCEPT !.st = "fetched", !.resp = resp,
                                !.t = pagetTitle(resp).title]]
       /\ gets' = [gets EXCEPT ![c] = AddGets(@, tasks[c][k].u, getCount(resp))]
  /\ UNCHANGED << msg, pc, i, scanVars, chans, links, sent, titleVars >>

\* The k-th goroutine of call c: ch <- Link{URL: u, Title: t}, which waits
\* while the buffer of len(urls) Links is full.
TaskSend(c, k) ==
  /\ k \in 1..Len(tasks[c])
  /\ tasks[c][k].st = "fetched"
  /\ Len(chans[chanOf(c)]) < chanCap(urls[c])
  /\ chans' = [chans EXCEPT ![chanOf(c)] =
                 Append(@, Link(tasks[c][k].u, tasks[c][k].t))]
  /\ sent' = [sent EXCEPT ![chanOf(c)] =
                Append(@, Link(tasks[c][k].u, tasks[c][k].t))]
  /\ tasks' = [tasks EXCEPT ![c][k].st = "sent"]
  /\ UNCHANGED << msg, pc, i, scanVars, links, gets, titleVars >>

\* links = append(links, <-ch), and the return after the last one.
Recv(c) ==
  /\ pc[c] = "recv"
  /\ Len(links[c]) < recvCount(urls[c])
  /\ chans[chanOf(c)] # <<>>
  /\ links' = [links EXCEPT ![c] = Append(@, chanRecv(chans[chanOf(c)]).v)]
  /\ chans' = [chans EXCEPT ![chanOf(c)] = chanRecv(@).rest]
  /\ pc' = [pc EXCEPT ![c] = IF Len(links'[c]) >= recvCount(urls[c])
                             THEN "done" ELSE "recv"]
  /\ UNCHANGED << msg, i, scanVars, tasks, sent, gets, titleVars >>

Next ==
  \E c \in Calls :
    \/ ScanStep(c)
    \/ LinksNone(c)
    \/ LinksOne(c)
    \/ LinksMany(c)
    \/ Spawn(c)
    \/ \E k \in 1..Len(tasks[c]) : TaskFetch(c, k)
    \/ \E k \in 1..Len(tasks[c]) : TaskSend(c, k)
    \/ Recv(c)

Spec == Init /\ [][Next]_vars

(***************************************************************************)
(* Two Parse calls on one Parser at the same time                          *)
(***************************************************************************)

\* "http:// http://": two links.
TwoHttp ==
  Str(<<"h", "t", "t", "p", ":", "/", "/", " ", "h", "t", "t", "p", ":", "/", "/">>)

\* "@a HTTPS://": a mention and one link.
OneHttps ==
  Str(<<"@", "a", " ", "H", "T", "T", "P", "S", ":", "/", "/">>)

\* "HTTPS:// HTTPS://": two links.
TwoHttps ==
  Str(<<"H", "T", "T", "P", "S", ":", "/", "/", " ",
        "H", "T", "T", "P", "S", ":", "/", "/">>)

\* "@a": a mention and no link.
NoLink == Str(<<"@", "a">>)

\* Call 1 parses a message with http links while call 2 parses one with
\* https links or none.
InitConcurrent ==
  /\ \E m \in {NoLink, OneHttps, TwoHttps} : msg = [c \in Calls |-> IF c = 1 THEN TwoHttp ELSE m]
  /\ pc = [c \in Calls |-> "scan"]
  /\ Fresh
  /\ TitleIdle

SpecConcurrent == InitConcurrent /\ [][Next]_vars

(***************************************************************************)
(* Parser.pagetTitle, token by token                                       *)
(***************************************************************************)

\* The longest token stream.
MaxTokens == 4

\* The tokens of the streams: the tags pagetTitle looks for, another tag,
\* and two texts.
Tokens ==
  { StartTag("head"), StartTag("title"), StartTag("body"), StartTag("p"),
    EndTag("head"), EndTag("title"), Text("A"), Text("B") }

\* The token tok may follow the stream st.  html.Tokenizer reads what
\* follows a title start tag as raw text up to the title end tag, so a title
\* start tag is followed by a text and the title end tag, or by the title end
\* tag at once; and a text is never followed by a text.
MayFollow(st, tok) ==
  LET n == Len(st) IN
  IF n = 0 THEN TRUE
  ELSE IF st[n] = StartTag("title")
       THEN tok.tt = "Text" \/ tok = EndTag("title")
  ELSE IF st[n].tt = "Text"
       THEN IF n >= 2 /\ st[n - 1] = StartTag("title")
            THEN tok = EndTag("title")
            ELSE tok.tt # "Text"
  ELSE TRUE

\* The token streams of at most n tokens; any of them may end where it does
\* (the page is cut short there).
RECURSIVE TokenStreams(_)
TokenStreams(n) ==
  IF n = 0 THEN {<<>>}
  ELSE LET shorter == TokenStreams(n - 1)
       IN shorter \cup
            {Append(st, tok) : <<st, tok>> \in
               {x \in shorter \X Tokens : MayFollow(x[1], x[2])}}

\* The responses pagetTitle is followed on.
TitleResponses ==
  {pageNotFound} \cup
    {Response(FALSE, st, "stream", "") : st \in TokenStreams(MaxTokens)}

\* A plausible slip: the body is closed where the title is returned only.
closeOnTitleOnly(path) == IF path = "title" THEN 1 ELSE 0

\* defer resp.Body.Close(): the Close calls run when pagetTitle returns on
\* the given path.
closeOnReturn(path) == 1

\* resp, err := p.hg.Get(url) fails: return "", err.
TitleGetFails ==
  /\ tpc = "get"
  /\ tresp.err
  /\ tpc' = "returned"
  /\ tres' = [path |-> "fetch", title |-> "", err |-> TRUE]
  /\ UNCHANGED << tresp, tk, thead, tcloses >>
  /\ UNCHANGED << msg, pc, i, scanVars, tasks, chans, links, sent, gets >>

\* resp, err := p.hg.Get(url) succeeds: the Close is deferred and the
\* tokenizer made.
TitleGetOk ==
  /\ tpc = "get"
  /\ ~tresp.err
  /\ tpc' = "loop"
  /\ UNCHANGED << tresp, tk, thead, tres, tcloses >>
  /\ UNCHANGED << msg, pc, i, scanVars, tasks, chans, links, sent, gets >>

\* One iteration of the token loop; when it returns, the deferred Close
\* runs.
TitleNext ==
  /\ tpc = "loop"
  /\ LET st == titleStep(tresp.body, tk, thead) IN
     /\ tk' = st.k
     /\ thead' = st.head
     /\ IF st.done
        THEN /\ tpc' = "returned"
             /\ tres' = [path |-> st.path, title |-> st.title, err |-> st.err]
             /\ tcloses' = tcloses + closeOnReturn(st.path)
        ELSE UNCHANGED << tpc, tres, tcloses >>
  /\ UNCHANGED tresp
  /\ UNCHANGED << msg, pc, i, scanVars, tasks, chans, links, sent, gets >>

\* One pagetTitle call, on any response; no Parse call runs.
InitTitle ==
  /\ msg = [c \in Calls |-> <<>>]
  /\ pc = [c \in Calls |-> "idle"]
  /\ Fresh
  /\ tresp \in TitleResponses
  /\ tpc = "get"
  /\ tk = 1
  /\ thead = FALSE
  /\ tres = NoResult
  /\ tcloses = 0

NextTitle == TitleGetFails \/ TitleGetOk \/ TitleNext

SpecTitle == InitTitle /\ [][NextTitle]_vars

(***************************************************************************)
(* Parse under a fair scheduler                                            *)
(***************************************************************************)

\* The most words of a message of links.
MaxLinks == 2

\* The words of the messages of links: two links and a mention.
LinkWords == { Http \o SchemeEnd, Https \o SchemeEnd, NoLink }

\* The messages of at most n words, a space between two words.
RECURSIVE LinkMessages(_)
LinkMessages(n) ==
  IF n = 0 THEN {<<>>}
  ELSE LET shorter == LinkMessages(n - 1)
       IN shorter \cup
          {IF m = <<>> THEN w ELSE m \o Str(<<" ">>) \o w :
             m \in shorter, w \in LinkWords}

\* One Parse call, on a message of links.
InitLinks ==
  /\ \E m \in LinkMessages(MaxLinks) :
       msg = [c \in Calls |-> IF c = 1 THEN m ELSE <<>>]
  /\ pc = [c \in Calls |-> IF c = 1 THEN "scan" ELSE "idle"]
  /\ Fresh
  /\ TitleIdle

\* The most goroutines a call on a message of links spawns.
Goroutines == 1..(MaxLinks + 1)

\* A step of urlsToLinks in call c with two or more URLs: of the caller, who
\* spawns and receives, or of a goroutine, which fetches and sends.
urlsToLinksStep(c) ==
  \/ Spawn(c)
  \/ Recv(c)
  \/ \E k \in Goroutines : TaskFetch(c, k) \/ TaskSend(c, k)

\* The Go scheduler lets every goroutine that can run take its next step:
\* the go statements of urlsToLinks are executed, every Get returns, a task
\* that can send sends, and the receiving loop takes what the channel holds.
\* As long as one of them can take a step, one does: the weakest such
\* condition, which a scheduler fair to each goroutine implies.
Fairness == \A c \in Calls : WF_vars(urlsToLinksStep(c))

SpecFair == InitLinks /\ [][Next]_vars /\ Fairness

(***************************************************************************)
(* What the claims speak of                                                *)
(***************************************************************************)

\* The Parse calls that have returned a MsgInfo.
Returned(c) == pc[c] = "done"

\* The number of k with list[k] = v.
Count(list, v) == Cardinality({k \in 1..Len(list) : list[k] = v})

\* The two lists hold the same elements, each as often.
SameBag(a, b) ==
  /\ Len(a) = Len(b)
  /\ \A k \in 1..Len(a) : Count(a, a[k]) = Count(b, a[k])

\* The fetch of the k-th URL of call c failed: in transport or in markup.
FetchFailed(c, k) == tasks[c][k].resp.kind \in {"transport", "markup"}

\* The Link wanted for the k-th URL of call c: the URL found in the message
\* with the title of the page its own Get was answered with.
OwnLink(c, k) == Link(urls[c][k], tasks[c][k].resp.want)

\* C1: with N >= 2 URLs found, in every interleaving of the fetch tasks
\* Parse returns exactly N Links, and as a multiset they are one Link per
\* URL occurrence, each with the title of that URL's own fetch.
C1_LinksAreOwnPairs ==
  \A c \in Calls :
    (Returned(c) /\ Len(urls[c]) >= 2) =>
      /\ Len(links[c]) = Len(urls[c])
      /\ Len(tasks[c]) = Len(urls[c])
      /\ SameBag(links[c], [k \in 1..Len(urls[c]) |-> OwnLink(c, k)])

\* C1's case: two different URLs whose results arrived in the other order,
\* with different titles.
C1_Witness ==
  /\ Returned(1)
  /\ Len(urls[1]) = 2
  /\ urls[1][1] # urls[1][2]
  /\ links[1][1].URL = urls[1][2]
  /\ links[1][1].Title # ""
  /\ links[1][2].Title # ""
  /\ links[1][1].Title # links[1][2].Title

\* C2: whatever fetches fail, in transport or in markup, Parse ends with no
\* error, every URL found is in the links, a failed URL with the empty title
\* and every other URL with its own title.
C2_FailedFetchGivesEmptyTitle ==
  \A c \in Calls :
    /\ tasks[c] # <<>> => pc[c] \notin {"error", "panic"}
    /\ (Returned(c) /\ Len(urls[c]) >= 1) =>
         /\ Len(tasks[c]) = Len(urls[c])
         /\ SameBag(links[c],
                    [k \in 1..Len(urls[c]) |->
                       Link(urls[c][k],
                            IF FetchFailed(c, k) THEN ""
                            ELSE tasks[c][k].resp.want)])

\* C2's case: of two URLs one failed in transport and the other has a title.
C2_Witness ==
  /\ Returned(1)
  /\ Len(urls[1]) = 2
  /\ tasks[1][1].resp.kind = "transport"
  /\ tasks[1][2].resp.kind = "page"
  /\ \E k \in 1..2 : links[1][k] = Link(urls[1][1], "")
  /\ \E k \in 1..2 : links[1][k].Title = "Atlassian"

\* C3: with N >= 2 links Parse has not returned while a fetch task is still
\* running: when it returns, every task has fetched and sent its result.
C3_ReturnAfterAllTasks ==
  \A c \in Calls :
    (Returned(c) /\ Len(urls[c]) >= 2) =>
      /\ Len(tasks[c]) = Len(urls[c])
      /\ \A k \in 1..Len(tasks[c]) :
           tasks[c][k].st = "sent" /\ tasks[c][k].resp \in Responses

\* C3's case: Parse has returned two links.
C3_Witness ==
  /\ Returned(1)
  /\ Len(urls[1]) = 2
  /\ Len(links[1]) = 2
  /\ chans[1] = <<>>

\* The text m holds, from 0-based index k on, a byte sequence that is no
\* code point, when read one code point after the other.
RECURSIVE InvalidFrom(_, _)
InvalidFrom(m, k) ==
  IF k >= Len(m) THEN FALSE
  ELSE LET d == DecodeRuneInString(SliceFrom(m, k))
       IN IF d.r = RuneError /\ d.size = 1 THEN TRUE
          ELSE InvalidFrom(m, k + d.size)

\* The text m is not well formed.
HasInvalid(m) == InvalidFrom(m, 0)

\* C4: a message that holds, anywhere, a byte sequence that is no code point
\* makes Parse fail with the decoding error: it returns no result.
C4_InvalidTextFails ==
  \A c \in Calls : HasInvalid(msg[c]) => pc[c] \notin {"done", "panic"}

\* C5: Parse fails on a decoding error only: on a well formed text it ends
\* with neither an error nor a panic.
C5_WellFormedTextSucceeds ==
  \A c \in Calls : ~HasInvalid(msg[c]) => pc[c] \notin {"error", "panic"}

\* The vocabulary as a set.
Vocabulary == {supportedEmotions[k] : k \in 1..Len(supportedEmotions)}

\* The bytes of m from 0-based index k on start with w.
StartsWith(m, k, w) == k + Len(w) <= Len(m) /\ Slice(m, k, k + Len(w)) = w

\* m holds, at 0-based index k, a '(' then a vocabulary word then a ')'.
VocabularyWordAt(m, k) ==
  \E w \in Vocabulary : StartsWith(m, k, <<LParen>> \o w \o <<RParen>>)

\* m holds, at 0-based index k, "http://" or "https://" in any case.
SchemeAt(m, k) ==
  \E w \in {Http \o SchemeEnd, Https \o SchemeEnd} :
    k + Len(w) <= Len(m) /\ ToLower(Slice(m, k, k + Len(w))) = w

\* m holds no '@', no parenthesized vocabulary word and no scheme.
NoToken(m) ==
  \A k \in 0..(Len(m) - 1) :
    m[k + 1] # At /\ ~VocabularyWordAt(m, k) /\ ~SchemeAt(m, k)

\* C6: for a text with no '@', no parenthesized vocabulary word and no
\* "http://" or "https://", Parse returns an entirely empty MsgInfo.
C6_NoTokenGivesEmptyMsgInfo ==
  \A c \in Calls :
    (~HasInvalid(msg[c]) /\ NoToken(msg[c])) =>
      /\ pc[c] \notin {"error", "panic"}
      /\ Returned(c) =>
           mentions[c] = <<>> /\ emotions[c] = <<>> /\ links[c] = <<>>

\* The positions are strictly increasing.
Increasing(at) == \A k \in 1..(Len(at) - 1) : at[k] < at[k + 1]

\* C7: mentions and emotions are each in the strict left to right order of
\* the start positions of their tokens in the message, one entry per token
\* matched.
C7_LeftToRightOrder ==
  \A c \in Calls :
    /\ Len(mentions[c]) = Len(mentionAt[c])
    /\ Increasing(mentionAt[c])
    /\ \A k \in 1..Len(mentions[c]) :
         /\ mentions[c][k] # <<>>
         /\ StartsWith(msg[c], mentionAt[c][k], <<At>> \o mentions[c][k])
    /\ Len(emotions[c]) = Len(emotionAt[c])
    /\ Increasing(emotionAt[c])
    /\ \A k \in 1..Len(emotions[c]) :
         StartsWith(msg[c], emotionAt[c][k],
                    <<LParen>> \o emotions[c][k] \o <<RParen>>)

\* C7's case: two different mentions, or two different emotions and a
\* mention, have been found.
C7_Witness ==
  /\ Returned(1)
  /\ \/ Len(mentions[1]) = 2 /\ mentions[1][1] # mentions[1][2]
     \/ Len(emotions[1]) = 2 /\ emotions[1][1] # emotions[1][2]
          /\ Len(mentions[1]) = 1

\* The character before 0-based index p of m is a letter or a digit.
AfterLetterOrDigit(m, p) ==
  \E w \in 1..4 :
    /\ w <= p
    /\ LET d == DecodeRuneInString(Slice(m, p - w, p))
       IN d.size = w /\ (IsLetter(d.r) \/ IsDigit(d.r))

\* C8: a link is extracted only at the start of the text or after a
\* character that is neither a letter nor a digit.
C8_NoLinkInsideWord ==
  \A c \in Calls :
    /\ Len(urls[c]) = Len(urlAt[c])
    /\ \A k \in 1..Len(urlAt[c]) :
         /\ StartsWith(msg[c], urlAt[c][k], urls[c][k])
         /\ urlAt[c][k] = 0 \/ ~AfterLetterOrDigit(msg[c], urlAt[c][k])

\* C8's case: a link found after a character that is no letter and no
\* digit, in a text that also holds a scheme right after a letter or digit.
C8_Witness ==
  /\ Returned(1)
  /\ Len(urlAt[1]) = 1
  /\ urlAt[1][1] > 0
  /\ \E p \in 1..(Len(msg[1]) - 1) :
       /\ SchemeAt(msg[1], p)
       /\ AfterLetterOrDigit(msg[1], p)
       /\ p < urlAt[1][1]

\* The scan of call c stands at a '('.
AtParen(c) ==
  pc[c] = "scan" /\ i[c] < Len(msg[c]) /\ msg[c][i[c] + 1] = LParen

\* C9: at a '(' an emotion is extracted exactly when what stands between it
\* and the first following ')' is a vocabulary word, case and all; on a miss
\* nothing is extracted and the position advances by exactly one.
C9_EmotionExactMatch ==
  [][ \A c \in Calls :
        (AtParen(c) /\ i'[c] # i[c]) =>
          IF VocabularyWordAt(msg[c], i[c])
          THEN /\ Len(emotions'[c]) = Len(emotions[c]) + 1
               /\ emotions'[c][Len(emotions'[c])] \in Vocabulary
               /\ StartsWith(msg[c], i[c] + 1,
                             emotions'[c][Len(emotions'[c])] \o <<RParen>>)
               /\ SubSeq(emotions'[c], 1, Len(emotions[c])) = emotions[c]
          ELSE /\ emotions'[c] = emotions[c]
               /\ mentions'[c] = mentions[c]
               /\ urls'[c] = urls[c]
               /\ i'[c] = i[c] + 1 ]_vars

\* C9's case: the scan has passed a '(' that opens no vocabulary word and
\* has extracted an emotion at another.
C9_Witness ==
  /\ Len(emotions[1]) = 1
  /\ \E p \in 0..(i[1] - 1) :
       /\ msg[1][p + 1] = LParen
       /\ ~VocabularyWordAt(msg[1], p)
       /\ IndexByte(SliceFrom(msg[1], p), RParen) # -1

\* C10: calls that run at the same time on one Parser share no state: each
\* result is that of the call's own message and of its own fetches, and no
\* Link of one call reaches another call.
C10_CallsDoNotInterfere ==
  \A c \in Calls :
    /\ \A k \in 1..Len(links[c]) :
         \E j \in 1..Len(tasks[c]) :
           /\ tasks[c][j].st \in {"sent", "sync"}
           /\ links[c][k] = Link(urls[c][j], tasks[c][j].resp.want)
    /\ \A k \in 1..Len(urls[c]) : StartsWith(msg[c], urlAt[c][k], urls[c][k])
    /\ Returned(c) =>
         /\ Len(links[c]) = Len(urls[c])
         /\ Len(urls[c]) >= 1 =>
              SameBag(links[c], [k \in 1..Len(urls[c]) |-> OwnLink(c, k)])

\* C10's case: call 1 has returned its two links while call 2 is still
\* receiving its own.
C10_Witness ==
  /\ Returned(1)
  /\ Len(links[1]) = 2
  /\ pc[2] = "recv"
  /\ Len(links[2]) = 1
  /\ chans[2] # <<>>

\* C11: with two or more links the returned links are in the order in which
\* the tasks put their results into the channel, the i-th returned the i-th
\* sent, whatever the order of discovery; one link alone is fetched in the
\* calling task, with no goroutine and no channel, and is the Link of its
\* URL and its response.
C11_ReturnedInSendOrder ==
  \A c \in Calls :
    /\ Len(urls[c]) >= 2 =>
         /\ Len(links[c]) <= Len(sent[c])
         /\ links[c] = SubSeq(sent[c], 1, Len(links[c]))
         /\ Returned(c) => links[c] = sent[c]
    /\ (Returned(c) /\ Len(urls[c]) = 1) =>
         /\ Len(tasks[c]) = 1
         /\ tasks[c][1].st = "sync"
         /\ sent[c] = <<>>
         /\ chans[c] = <<>>
         /\ links[c] = << Link(urls[c][1], tasks[c][1].resp.want) >>

\* C11's case: the second URL found was sent and returned first.
C11_Witness ==
  /\ Returned(1)
  /\ Len(urls[1]) = 2
  /\ urls[1][1] # urls[1][2]
  /\ sent[1][1].URL = urls[1][2]
  /\ links[1] = sent[1]

\* C12: after a match at position p the width reported spans the whole
\* token, so the scan goes on at the first position after the token and
\* never inside it.
C12_ScanSkipsMatchedToken ==
  \A c \in Calls :
    /\ \A k \in 1..Len(emotionAt[c]) :
         i[c] >= emotionAt[c][k] + Len(emotions[c][k]) + 2
    /\ \A k \in 1..Len(mentionAt[c]) :
         i[c] >= mentionAt[c][k] + Len(mentions[c][k]) + 1
    /\ \A k \in 1..Len(urlAt[c]) :
         i[c] >= urlAt[c][k] + Len(urls[c][k])

\* C13: the position never exceeds the text length, and unless a decoding
\* error is returned the loop ends with the position at the text length.
C13_ScanEndsAtTextLength ==
  \A c \in Calls :
    /\ i[c] <= Len(msg[c])
    /\ pc[c] \notin {"idle", "scan", "error"} => i[c] = Len(msg[c])

\* The index of the first token of body that is in the set ks of indexes, or
\* Len(body) + 1.
First(body, ks) ==
  IF ks = {} THEN Len(body) + 1
  ELSE CHOOSE k \in ks : \A l \in ks : k <= l

\* The title start tags of body.
TitleTags(body) == {k \in 1..Len(body) : body[k] = StartTag("title")}

\* C14: the first title start tag decides: once it has been read, a title
\* returned is the text right after it, and no later title tag's.
C14_FirstTitleTagDecides ==
  LET body == tresp.body
      f    == First(body, TitleTags(body))
  IN (tpc = "returned" /\ f < tk /\ tres.path = "title") =>
       /\ NextToken(body, f + 1).tt = "Text"
       /\ tres.title = NextToken(body, f + 1).data

\* The title start tags of body that a text follows.
TitlesWithText(body) ==
  {k \in TitleTags(body) : k < Len(body) /\ body[k + 1].tt = "Text"}

\* The body start tags and head end tags of body.
Stops(body) ==
  {k \in 1..Len(body) : body[k] = StartTag("body") \/ body[k] = EndTag("head")}

\* C15: for every token stream, a body start tag or head end tag reached
\* before a title was returned gives the empty title and no error; the end of
\* the stream reached first gives an error; and pagetTitle ends in exactly
\* one of title found, empty title and error.
C15_TitleOutcomes ==
  LET body  == tresp.body
      stop  == First(body, Stops(body))
      title == First(body, TitlesWithText(body))
      end   == Len(body) + 1
  IN /\ tpc = "loop" => tk <= Len(body) + 2
     /\ (tpc = "returned" /\ ~tresp.err) =>
          /\ stop < title =>
               tres = [path |-> "empty", title |-> "", err |-> FALSE]
          /\ (stop = end /\ title = end) =>
               tres = [path |-> "markup", title |-> "", err |-> TRUE]
          /\ title < stop =>
               tres = [path |-> "title", title |-> body[title + 1].data,
                       err |-> FALSE]
          /\ tres.path \in {"title", "empty", "markup"}
          /\ tres.path = "title" => tres.title # "" /\ ~tres.err

\* C15's case: a body start tag ended the loop after a title start tag
\* with no text had been read.
C15_Witness ==
  /\ tpc = "returned"
  /\ tres.path = "empty"
  /\ tresp.body[tk - 1] = StartTag("body")
  /\ \E k \in TitleTags(tresp.body) : k < tk - 1

\* C16: a body got from a Get that succeeded is closed exactly once when
\* pagetTitle returns, on every path, and never before; no Close is called
\* when the Get failed.
C16_BodyClosedOnce ==
  /\ tpc = "returned" => tcloses = (IF tresp.err THEN 0 ELSE 1)
  /\ tpc # "returned" => tcloses = 0
  /\ tres.path = "fetch" <=> (tpc = "returned" /\ tresp.err)

\* C16's case: pagetTitle has returned the markup error and closed the body.
C16_Witness ==
  /\ tpc = "returned"
  /\ tres.path = "markup"
  /\ tresp.body # <<>>
  /\ tcloses = 1

\* C17: in one Parse call Get is called exactly once for each occurrence of
\* a URL found, with one URL as with several: twice for a URL found twice,
\* and not again when it failed.
C17_OneGetPerUrlOccurrence ==
  \A c \in Calls :
    /\ \A u \in DOMAIN gets[c] : gets[c][u] <= Count(urls[c], u)
    /\ Returned(c) =>
         /\ DOMAIN gets[c] = {urls[c][k] : k \in 1..Len(urls[c])}
         /\ \A u \in DOMAIN gets[c] : gets[c][u] = Count(urls[c], u)

\* C17's case: a URL found twice has been fetched twice, one of the two
\* fetches failing.
C17_Witness ==
  /\ Returned(1)
  /\ Len(urls[1]) = 2
  /\ urls[1][1] = urls[1][2]
  /\ gets[1][urls[1][1]] = 2
  /\ tasks[1][1].resp.err
  /\ ~tasks[1][2].resp.err

\* C18: link() never reads past the end of the text: Parse ends with a
\* result or with the decoding error, never with an access out of range.
C18_NoAccessOutOfRange ==
  \A c \in Calls : pc[c] # "panic"

\* C19: no fetch is issued before the whole message is scanned, and none at
\* all when the scan ends with a decoding error, links found or not.
C19_NoFetchBeforeScanEnds ==
  \A c \in Calls :
    /\ (gets[c] # NoGets \/ tasks[c] # <<>>) =>
         /\ i[c] >= Len(msg[c])
         /\ pc[c] \notin {"error", "panic"}
    /\ pc[c] \in {"error", "panic"} => (gets[c] = NoGets /\ links[c] = <<>>)

\* C19's case: the decoding error is returned after a link was found.
C19_Witness ==
  /\ pc[1] = "error"
  /\ Len(urls[1]) >= 1
  /\ gets[1] = NoGets

\* C20: with N >= 2 links the channel takes the N results without a task
\* ever waiting to send; so, every Get returning, every task spawned ends and
\* Parse returns, and no task is left waiting when it has.
C20_SendsNeverBlock ==
  /\ [](\A c \in Calls :
          /\ Len(sent[c]) <= Len(urls[c])
          /\ \A k \in 1..Len(tasks[c]) :
               tasks[c][k].st = "fetched" => ENABLED TaskSend(c, k)
          /\ Returned(c) =>
               \A k \in 1..Len(tasks[c]) : tasks[c][k].st \in {"sent", "sync"})
  /\ \A c \in Calls :
       (pc[c] = "spawn") ~>
         (Returned(c) /\ Len(links[c]) = Len(urls[c]) /\ Len(sent[c]) = Len(urls[c]))

\* C20's case: a task sends its result while the other's is still buffered.
C20_Witness ==
  /\ pc[1] \in {"spawn", "recv"}
  /\ Len(urls[1]) = 2
  /\ Len(chans[1]) = 2
  /\ links[1] = <<>>

====
